---- MODULE Spec2Model ----
(***************************************************************************)
(* Model of the editor operation queue (src/src/useEditorQueue.svelte.ts). *)
(*                                                                         *)
(* One queue instance on a single-threaded event loop.  A step of the      *)
(* model is one event-loop task or microtask: a call of the public API     *)
(* (enqueue, cancel, cancelAll, clearErrors, flush), the expiry of a       *)
(* debounce timer, the settlement of the promise an action returned, or    *)
(* the passage of one unit of time.  Everything the code does              *)
(* synchronously inside such a task is part of the same step.              *)
(*                                                                         *)
(* Time is kept per timer, as the delay it still has to wait; Date.now()   *)
(* is only ever stored (createdAt, timestamp), never read, and is left     *)
(* out.                                                                    *)
(***************************************************************************)
EXTENDS Integers, Sequences, FiniteSets, TLC

\* ---------------------------------------------------------------- bounds
MaxOps == 3          \* operations submitted over the life of the instance
SmallOps == 2        \* the same, for the instance of SpecSmall
SingleOp == 1        \* the same, for the instance of SpecFaultySingle
MaxErrorsCap == 1    \* options.maxErrors is drawn from 0..MaxErrorsCap
BatchLen == 4        \* operations submitted in one go (SpecPriority)

\* ------------------------------------------------------- program constants
DEBOUNCE_MS == 2     \* options.debounceMs, in clock units

\* two of the four kinds; the kind is only ever the key of debounceTimers
Kinds == {"autosave", "publish"}
\* the default priority and a higher one; the batch of the priority test
\* has a third in between
Priorities == {0, 10}
BatchPriorities == {0, 5, 10}
\* What the synchronous part of a caller-supplied action does when the loop
\* invokes it:
\*   plain  nothing the queue can see
\*   reenq  it submits a debounced operation of its own kind to this queue
\* Either way the action is an async function; the promise it returns
\* resolves or rejects later.
Behaviours == {"plain", "reenq"}
Outcomes == {"ok", "fail"}
\* A malformed operation: invoking its action throws before any promise
\* exists (the action is not invocable, or is a plain function that
\* throws).
Malformed == {"throws"}
\* What a callback (onSuccess, onError) does when it is called
Callbacks == {"returns", "raises"}

NoOp == 0            \* null / absent map entry

\* ---------------------------------------------- consent flow constants
STEP_ORDER == <<"welcome", "privacy", "preferences">>
\* what the currentStep setter may be given: the steps and a value that is
\* not in STEP_ORDER
StepValues == {"welcome", "privacy", "preferences", "review"}

DefaultCategories ==
    [essential |-> TRUE, preferences |-> FALSE, functional |-> FALSE,
     tracking |-> FALSE, performance |-> FALSE]
\* category records a caller or a restored settings object may supply
CategoryValues ==
    {DefaultCategories,
     [essential |-> TRUE, preferences |-> TRUE, functional |-> TRUE,
      tracking |-> TRUE, performance |-> TRUE],
     [essential |-> FALSE, preferences |-> TRUE, functional |-> FALSE,
      tracking |-> FALSE, performance |-> FALSE]}
NullHandle == "null"
Handles == {NullHandle, "jessie"}
Themes == {"trans", "pride"}
DarkModes == {"system", "dark"}
\* a field that a settings object does not have (or has empty)
Absent == ""

\* The state after construction and after resetToDefaults.  The a11y
\* preferences and contentPageSettings are written by reset and restore
\* only and read by nothing; they are left out.
ConsentDefaults ==
    [categories |-> DefaultCategories,
     preciseLocation |-> FALSE,
     ageVerified |-> FALSE,
     optionalHandle |-> NullHandle,
     theme |-> "trans",
     darkMode |-> "system",
     currentStep |-> "welcome",
     restoredFromTempo |-> FALSE]

\* ----------------------------------------------------- draft constants
MaxVersion == 2          \* the highest version a response carries
Versions == 0..MaxVersion
Contents == {"x", "y"}   \* frontmatter and content given to saveDraft
NoContent == ""
NoVersion == -1
NoDraftCall == [call |-> "none", version |-> NoVersion]

\* The state after construction.  lastSaved is kept as "a date is set".
DraftDefaults ==
    [isDirty |-> FALSE, isSaving |-> FALSE, lastSaved |-> FALSE,
     hasConflict |-> FALSE, serverVersion |-> 0, localVersion |-> 0]

\* ---------------------------------------------------- worker constants
MaxMessages == 3         \* the message ids handed out in one run
UnknownId == 0           \* messageId before the first ++messageId: the id
                         \* that no message is ever given
NoWorkerCall == [call |-> "none", id |-> UnknownId, ready |-> FALSE,
                 result |-> "none"]

\* ------------------------------------------------- lifecycle constants
MaxFns == 3              \* cleanup functions created in one run
MaxTimeouts == 2         \* timers of the debounced function live at once
DEBOUNCE_DELAY == 2      \* the delay given to debounce
TimerDelays == {1, 2}    \* the delays given to setTimer
Args == {"a", "b"}       \* what the debounced function is called with
\* what a cleanup function given to addCleanup does
CleanupKinds == {"returns", "raises"}
\* what the function given to debounce does: return, or call the debounced
\* function again
FnKinds == {"plain", "recall"}
NoDebounce == "none"

VARIABLES
    ops,             \* every operation ever submitted; an id is an index
    queue,           \* state.queue: ids
    isProcessing,    \* state.isProcessing
    lastProcessed,   \* state.lastProcessed
    errors,          \* state.errors: the ids of the records, newest first
    MAX_ERRORS,      \* the configured cap
    opLimit,         \* how many operations this instance gets to see
    debounceTimers,  \* the Map kind -> timer; a timer is named by its op
    liveTimers,      \* the runtime's timers: scheduled, not fired, not cleared
    awaiting,        \* activations of processQueue suspended at the await
    \* history (not read by the program)
    startLog,        \* ids in the order their actions were invoked
    insertLog,       \* ids in the order they were inserted into pending
    cancelled,       \* ids that cancel or cancelAll took out of pending
    superseded,      \* debounced ops followed by a same-kind debounced enqueue
                     \* made before their interval had elapsed
    discarded,       \* ops whose timer was live when cancelAll was called
    wiped,           \* running ops during whose run cancelAll was called
    kept,            \* ops that waited in pending beside the target when
                     \* cancel hit an operation that had not started, and
                     \* have since neither been invoked nor cancelled
    missed,          \* ops that were the target of a cancel while their
                     \* debounce timer was live, and have since neither
                     \* lost the timer unfired nor been invoked or
                     \* cancelled (kept by CancelDebouncing only)
    beside,          \* ops that took part in a non-debounced enqueue made
                     \* while a debounced operation of the same kind was
                     \* waiting (both of them), and have since neither
                     \* lost the timer unfired nor been invoked or
                     \* cancelled (kept by EnqueueBeside only)
    raised,          \* the last call into the queue threw to its caller
    lastIter,        \* the last completed loop iteration: the operation
                     \* executed, how its action settled, the callbacks
                     \* called, whether an error record was added, the id
                     \* removed from pending and the id whose action was
                     \* invoked next
    \* the consent flow (useConsentState)
    consent,         \* its $state variables, as one record
    submission,      \* what buildSubmission returned last: <<>> or <<payload>>
    lastNav          \* <<[call, from]>> when the last call was nextStep,
                     \* prevStep or goToStep, made at step `from`; else <<>>

    \* the lifecycle registry (useLifecycle)
VARIABLES
    functions,        \* the cleanup functions created so far, by what they do
                      \* when invoked; a function is known by its index
    cleanupFunctions, \* the registry: a Set, kept in insertion order
    timers,           \* live setTimer timers: [id, remaining]; id is the
                      \* index of the cleanup function that clears the timer
    cleared,          \* ids of the timers whose cleanup function has run
    debouncedFn,      \* what the function given to debounce does; NoDebounce
                      \* before debounce is called
    timeouts,         \* live timers of the debounced function:
                      \* [id, remaining, args, tracked]; tracked says that
                      \* timeoutId holds this timer
    burst,            \* <<>> or <<[args, age, voided, invoked]>>: the last
                      \* call of the debounced function, the time since,
                      \* whether cancel or cleanup was called since, and
                      \* how often fn was invoked since
    lastInvocation,   \* <<>> or <<[args, called, age, voided, nth]>>: the
                      \* last invocation of fn, its arguments, and what
                      \* the burst was when the timer fired
    lastCleanup,      \* <<>> or <<[before, invoked, after]>> when the last
                      \* call was cleanup(): the registry before, the
                      \* functions invoked in order, the registry after
    lastDisposal      \* the same when the last call was that of a function
                      \* returned by addCleanup or setTimer

    \* draft persistence (useDraftPersistence) on this queue
VARIABLES
    draft,           \* its $state record
    contents,        \* per operation, the content the saveDraft call that
                     \* submitted it was given; NoContent for an operation
                     \* that somebody else put into the queue
    lastDraftCall    \* the last call or response that the draft state
                     \* saw, and the version a response carried

draftVars == <<draft, contents, lastDraftCall>>

VARIABLES
    worker,          \* TRUE when worker holds a Worker, FALSE for null
    isReady,
    lastError,       \* TRUE when lastError holds an Error
    pendingRequests,
    messageId,
    pendingPromises, \* the keys of the Map
    effectLive,      \* the initialising effect has run and its cleanup not
    requests,        \* per message id handed out: a request with the calls
                     \* made on resolve and reject of its promise, or a
                     \* post without an answer
    posted,          \* the ids of the messages the worker was given
    lastWorkerCall   \* the last call or event and what it returned

workerVars == <<worker, isReady, lastError, pendingRequests, messageId,
                pendingPromises, effectLive, requests, posted,
                lastWorkerCall>>

\* The variables of the consent flow; the queue never touches them.
consentVars == <<consent, submission, lastNav>>

lifecycleVars == <<functions, cleanupFunctions, timers, cleared, debouncedFn,
                   timeouts, burst, lastInvocation, lastCleanup,
                   lastDisposal>>

queueVars == <<ops, queue, isProcessing, lastProcessed, errors, MAX_ERRORS,
          opLimit, debounceTimers, liveTimers, awaiting, startLog, insertLog,
          cancelled, superseded, discarded, wiped, kept, missed, beside,
          raised, lastIter>>

vars == <<queueVars, consentVars, lifecycleVars, draftVars, workerVars>>

\* The whole state as one record, so that the code's functions can be
\* written as operators from state to state.  Three fields are not state
\* but belong to the step being taken: how the callbacks called in this
\* step behave, and whether an exception is on its way up the call stack.
State ==
    [ops |-> ops, queue |-> queue, isProcessing |-> isProcessing,
     lastProcessed |-> lastProcessed, errors |-> errors,
     MAX_ERRORS |-> MAX_ERRORS, opLimit |-> opLimit,
     debounceTimers |-> debounceTimers,
     liveTimers |-> liveTimers, awaiting |-> awaiting,
     startLog |-> startLog, insertLog |-> insertLog,
     cancelled |-> cancelled, superseded |-> superseded,
     discarded |-> discarded, wiped |-> wiped, kept |-> kept,
     missed |-> missed, beside |-> beside,
     lastIter |-> lastIter,
     onSuccess |-> "returns", onError |-> "returns", exc |-> FALSE]

\* The queue is left in state s
QueueBecomes(s) ==
    /\ ops' = s.ops
    /\ queue' = s.queue
    /\ isProcessing' = s.isProcessing
    /\ lastProcessed' = s.lastProcessed
    /\ errors' = s.errors
    /\ MAX_ERRORS' = s.MAX_ERRORS
    /\ opLimit' = s.opLimit
    /\ debounceTimers' = s.debounceTimers
    /\ liveTimers' = s.liveTimers
    /\ awaiting' = s.awaiting
    /\ startLog' = s.startLog
    /\ insertLog' = s.insertLog
    /\ cancelled' = s.cancelled
    /\ superseded' = s.superseded
    /\ discarded' = s.discarded
    /\ wiped' = {id \in s.wiped : \E i \in 1..Len(s.awaiting) :
                                      s.awaiting[i] = id}
    /\ kept' = {id \in s.kept \ s.cancelled :
                   \A i \in 1..Len(s.startLog) : s.startLog[i] # id}
    /\ missed' = {id \in s.missed \ s.cancelled :
                     /\ \A i \in 1..Len(s.startLog) : s.startLog[i] # id
                     /\ \/ \E t \in s.liveTimers : t.op = id
                        \/ \E i \in 1..Len(s.insertLog) :
                              s.insertLog[i] = id}
    /\ beside' = {id \in s.beside \ s.cancelled :
                     /\ \A i \in 1..Len(s.startLog) : s.startLog[i] # id
                     /\ \/ \E t \in s.liveTimers : t.op = id
                        \/ \E i \in 1..Len(s.insertLog) :
                              s.insertLog[i] = id}
    /\ raised' = s.exc
    /\ lastIter' = s.lastIter

\* A step of the queue alone
Becomes(s) ==
    /\ QueueBecomes(s)
    /\ UNCHANGED <<consentVars, lifecycleVars, draftVars, workerVars>>

\* ------------------------------------------------------------ JS helpers
Min(a, b) == IF a < b THEN a ELSE b
Max(a, b) == IF a > b THEN a ELSE b

\* Array.prototype.slice(start, end): a negative index counts from the end
SliceIndex(n, len) == IF n < 0 THEN Max(len + n, 0) ELSE Min(n, len)

Slice(a, start, end) ==
    SubSeq(a, SliceIndex(start, Len(a)) + 1, SliceIndex(end, Len(a)))

SliceFrom(a, start) == Slice(a, start, Len(a))

\* Array.prototype.filter
RECURSIVE Filter(_, _)
Filter(a, keep) ==
    IF a = <<>> THEN <<>>
    ELSE IF Head(a) \in keep THEN <<Head(a)>> \o Filter(Tail(a), keep)
    ELSE Filter(Tail(a), keep)

Range(a) == {a[i] : i \in 1..Len(a)}

Count(a, x) == Cardinality({i \in 1..Len(a) : a[i] = x})

\* (variant) the comparison of addToQueue written <= : a new operation
\* goes in front of the entries of its own priority
FindIndexLowerOrEqual(s, p) ==
    LET hits == {i \in 1..Len(s.queue) : s.ops[s.queue[i]].priority <= p}
    IN  IF hits = {} THEN -1
        ELSE (CHOOSE i \in hits : \A j \in hits : i <= j) - 1

\* Array.prototype.findIndex over the queue, 0-based, -1 when none:
\* the first entry whose priority is strictly less than p
FindIndexLower(s, p) ==
    LET hits == {i \in 1..Len(s.queue) : s.ops[s.queue[i]].priority < p}
    IN  IF hits = {} THEN -1
        ELSE (CHOOSE i \in hits : \A j \in hits : i <= j) - 1

\* ------------------------------------------------------------ the queue

\* setTimeout / clearTimeout on the runtime's timer table
SetTimer(s, id) ==
    [s EXCEPT !.liveTimers = @ \cup {[op |-> id, left |-> DEBOUNCE_MS]}]

ClearTimer(s, id) ==
    [s EXCEPT !.liveTimers = {t \in @ : t.op # id}]

\* enqueue(operation, true): the id is fresh, the kind's tracked timer is
\* cleared and replaced
EnqueueDebounced(s, type, priority) ==
    LET id == Len(s.ops) + 1
        s1 == [s EXCEPT
                 !.ops = Append(@, [type |-> type, priority |-> priority]),
                 !.superseded = @ \cup
                     {t.op : t \in {u \in s.liveTimers :
                                       /\ s.ops[u.op].type = type
                                       /\ u.left > 0}}]
        s2 == IF s1.debounceTimers[type] # NoOp
              THEN ClearTimer(s1, s1.debounceTimers[type])
              ELSE s1
    IN  [SetTimer(s2, id) EXCEPT !.debounceTimers[type] = id]

\* The rest of a loop iteration once the outcome of the action is known:
\* the remainder of the try block, the catch block and the slice.  An
\* exception raised by onSuccess lands in the catch block; one raised by
\* onError leaves processQueue.
Settled(s, operation, outcome) ==
    LET caught == outcome = "fail" \/ s.onSuccess = "raises"
        escaped == caught /\ s.onError = "raises"
        done ==
            IF caught
            THEN [s EXCEPT
                    !.errors = <<operation>> \o Slice(@, 0, s.MAX_ERRORS - 1)]
            ELSE [s EXCEPT !.lastProcessed = operation]
        sliced == [done EXCEPT !.queue = SliceFrom(@, 1)]
        iter == [op |-> operation, outcome |-> outcome,
                 onSuccess |-> outcome = "ok", onError |-> caught,
                 recorded |-> caught /\ ~escaped,
                 removed |-> IF ~escaped /\ Len(done.queue) > 0
                             THEN done.queue[1] ELSE NoOp,
                 next |-> IF ~escaped /\ Len(sliced.queue) > 0
                          THEN sliced.queue[1] ELSE NoOp]
    IN  IF escaped
        THEN [s EXCEPT !.exc = TRUE, !.lastIter = iter]
        ELSE [sliced EXCEPT !.lastIter = iter]

\* An exception that leaves an async function rejects the promise the
\* function returned; it does not reach the caller.
\* (variant) the function is not async
Rethrows(s) == s

Rejects(s) == [s EXCEPT !.exc = FALSE]

\* The body of the loop in processQueue from the top of an iteration up to
\* the point where the activation suspends at the await or leaves the loop.
\* sync is what the invoked action does before it returns its promise; an
\* action that re-enqueues submits its own kind at the default priority,
\* as long as the instance has operations left.  When the invocation
\* throws, the iteration is completed at once and the loop goes on.
RECURSIVE LoopFrom(_, _)
LoopFrom(s, sync) ==
    IF Len(s.queue) > 0
    THEN LET operation == s.queue[1]
             invoked == [s EXCEPT !.startLog = Append(@, operation)]
             started == [invoked EXCEPT !.awaiting = Append(@, operation)]
             thrown == Settled(invoked, operation, "fail")
         IN  IF sync = "throws"
             THEN IF thrown.exc THEN thrown ELSE LoopFrom(thrown, "plain")
             ELSE IF sync = "reenq" /\ Len(s.ops) < s.opLimit
             THEN EnqueueDebounced(started, s.ops[operation].type, 0)
             ELSE started
    ELSE [s EXCEPT !.isProcessing = FALSE]

\* (variant) processQueue without the isProcessing half of its guard
processQueueUnguarded(s, sync) ==
    IF Len(s.queue) = 0 THEN s
    ELSE Rejects(LoopFrom([s EXCEPT !.isProcessing = TRUE], sync))

processQueue(s, sync) ==
    IF s.isProcessing \/ Len(s.queue) = 0 THEN s
    ELSE Rejects(LoopFrom([s EXCEPT !.isProcessing = TRUE], sync))

addToQueue(s, id, sync) ==
    LET insertIndex == FindIndexLower(s, s.ops[id].priority)
        inserted ==
            IF insertIndex = -1 THEN Append(s.queue, id)
            ELSE Slice(s.queue, 0, insertIndex) \o <<id>>
                     \o SliceFrom(s.queue, insertIndex)
    IN  processQueue([s EXCEPT !.queue = inserted,
                               !.insertLog = Append(@, id)], sync)

\* enqueue(operation, false)
\* (variant) the debounce argument is ignored
EnqueueNowDebounced(s, type, priority, sync) ==
    EnqueueDebounced(s, type, priority)

EnqueueNow(s, type, priority, sync) ==
    LET id == Len(s.ops) + 1
    IN  addToQueue([s EXCEPT !.ops = Append(@, [type |-> type,
                                                  priority |-> priority])],
                   id, sync)

\* The rest of a loop iteration after the awaited promise of activation i
\* has settled, and on into the next iteration.
Resume(s, i, outcome, sync) ==
    LET operation == s.awaiting[i]
        rest == [s EXCEPT !.awaiting = SubSeq(@, 1, i - 1)
                                         \o SubSeq(@, i + 1, Len(@))]
        after == Settled(rest, operation, outcome)
    IN  Rejects(IF after.exc THEN after ELSE LoopFrom(after, sync))

cancel(s, operationId) ==
    [s EXCEPT !.queue = Filter(@, Range(@) \ {operationId}),
              !.cancelled = @ \cup (Range(s.queue) \cap {operationId}),
              !.kept = @ \cup
                  IF /\ operationId \in Range(s.queue)
                     /\ operationId \notin Range(s.awaiting)
                  THEN Range(s.queue) \ {operationId}
                  ELSE {}]

cancelAll(s) ==
    [s EXCEPT !.liveTimers = {t \in @ :
                                \A k \in Kinds : s.debounceTimers[k] # t.op},
              !.debounceTimers = [k \in Kinds |-> NoOp],
              !.queue = <<>>,
              !.cancelled = @ \cup Range(s.queue),
              !.wiped = @ \cup Range(s.awaiting),
              !.discarded = @ \cup {t.op : t \in s.liveTimers}]

\* (variant) the reset also empties pending
clearErrorsAndPending(s) == [s EXCEPT !.errors = <<>>, !.queue = <<>>]

clearErrors(s) == [s EXCEPT !.errors = <<>>]

flush(s, sync) ==
    processQueue([s EXCEPT
        !.liveTimers = {t \in @ :
                          \A k \in Kinds : s.debounceTimers[k] # t.op},
        !.debounceTimers = [k \in Kinds |-> NoOp]], sync)

\* The callback given to setTimeout in enqueue
TimerCallback(s, id, sync) ==
    LET fired == [s EXCEPT !.liveTimers = {t \in @ : t.op # id}]
        added == addToQueue(fired, id, sync)
    IN  [added EXCEPT !.debounceTimers[s.ops[id].type] = NoOp]

\* ---------------------------------------------------------------- steps
InitWith(limit) ==
    /\ opLimit = limit
    /\ ops = <<>>
    /\ queue = <<>>
    /\ isProcessing = FALSE
    /\ lastProcessed = NoOp
    /\ errors = <<>>
    /\ MAX_ERRORS \in 0..MaxErrorsCap
    /\ debounceTimers = [k \in Kinds |-> NoOp]
    /\ liveTimers = {}
    /\ awaiting = <<>>
    /\ startLog = <<>>
    /\ insertLog = <<>>
    /\ cancelled = {}
    /\ superseded = {}
    /\ discarded = {}
    /\ wiped = {}
    /\ kept = {}
    /\ missed = {}
    /\ beside = {}
    /\ raised = FALSE
    /\ consent = ConsentDefaults
    /\ submission = <<>>
    /\ lastNav = <<>>
    /\ functions = <<>>
    /\ cleanupFunctions = <<>>
    /\ timers = {}
    /\ cleared = {}
    /\ debouncedFn = NoDebounce
    /\ timeouts = {}
    /\ burst = <<>>
    /\ lastInvocation = <<>>
    /\ lastCleanup = <<>>
    /\ lastDisposal = <<>>
    /\ draft = DraftDefaults
    /\ contents = <<>>
    /\ lastDraftCall = NoDraftCall
    /\ worker = FALSE
    /\ isReady = FALSE
    /\ lastError = FALSE
    /\ pendingRequests = 0
    /\ messageId = 0
    /\ pendingPromises = {}
    /\ effectLive = FALSE
    /\ requests = <<>>
    /\ posted = {}
    /\ lastWorkerCall = NoWorkerCall
    /\ lastIter = [op |-> NoOp, outcome |-> "ok", onSuccess |-> FALSE,
                   onError |-> FALSE, recorded |-> FALSE, removed |-> NoOp,
                   next |-> NoOp]

Init == InitWith(MaxOps)

Enqueue ==
    /\ Len(ops) < opLimit
    /\ \E type \in Kinds, priority \in Priorities :
          \/ \E sync \in Behaviours :
                Becomes(EnqueueNow(State, type, priority, sync))
          \/ Becomes(EnqueueDebounced(State, type, priority))

TimerFires ==
    \E t \in liveTimers :
        /\ t.left = 0
        /\ \E sync \in Behaviours : Becomes(TimerCallback(State, t.op, sync))

Settle ==
    \E i \in 1..Len(awaiting), outcome \in Outcomes, sync \in Behaviours :
        Becomes(Resume(State, i, outcome, sync))

Cancel ==
    \E operationId \in 1..Len(ops) : Becomes(cancel(State, operationId))

CancelAll ==
    \E s \in {cancelAll(State)} : Becomes(s)

ClearErrors ==
    \E s \in {clearErrors(State)} : Becomes(s)

Flush ==
    \E s \in {flush(State, sync) : sync \in Behaviours} : Becomes(s)

\* One unit of time passes.  A timer fires no earlier than its delay, and
\* time does not pass a timer that is due.
QueueTick ==
    /\ liveTimers # {}
    /\ \A t \in liveTimers : t.left > 0
    /\ liveTimers' = {[t EXCEPT !.left = @ - 1] : t \in liveTimers}
    /\ UNCHANGED <<ops, queue, isProcessing, lastProcessed, errors,
                   MAX_ERRORS, opLimit, debounceTimers, awaiting,
                   startLog, insertLog, cancelled, superseded, discarded,
                   wiped, kept, missed, beside, raised, lastIter>>

Tick ==
    /\ QueueTick
    /\ UNCHANGED <<consentVars, lifecycleVars, draftVars, workerVars>>

Next ==
    \/ Enqueue
    \/ TimerFires
    \/ Settle
    \/ Cancel
    \/ CancelAll
    \/ ClearErrors
    \/ Flush
    \/ Tick

Spec == Init /\ [][Next]_vars

\* The same instance with a smaller supply of operations.
InitSmall == InitWith(SmallOps)

SpecSmall == InitSmall /\ [][Next]_vars

\* A caller submits up to BatchLen operations without debounce, one after
\* another in one task on the idle queue; afterwards the actions settle.
BatchEnqueue ==
    /\ Len(ops) < BatchLen
    /\ lastIter.op = NoOp
    /\ \E priority \in BatchPriorities :
          Becomes(EnqueueNow(State, "publish", priority, "plain"))

BatchSettle ==
    /\ awaiting # <<>>
    /\ \E outcome \in Outcomes : Becomes(Resume(State, 1, outcome, "plain"))

NextPriority ==
    \/ BatchEnqueue
    \/ BatchSettle

SpecPriority == Init /\ [][NextPriority]_vars

\* The same queue with operations that misbehave: an action that cannot be
\* invoked or throws before it returns a promise, and callbacks that raise.
EnqueueMalformed ==
    /\ Len(ops) < opLimit
    /\ \E type \in Kinds, priority \in Priorities, sync \in Malformed,
          onError \in Callbacks :
          Becomes(EnqueueNow([State EXCEPT !.onError = onError],
                             type, priority, sync))

TimerFiresMalformed ==
    \E t \in liveTimers :
        /\ t.left = 0
        /\ \E sync \in Malformed, onError \in Callbacks :
              Becomes(TimerCallback([State EXCEPT !.onError = onError],
                                    t.op, sync))

SettleRaising ==
    \E i \in 1..Len(awaiting), outcome \in Outcomes,
       sync \in Behaviours \cup Malformed,
       onSuccess \in Callbacks, onError \in Callbacks :
        /\ "raises" \in {onSuccess, onError} \/ sync \in Malformed
        /\ Becomes(Resume([State EXCEPT !.onSuccess = onSuccess,
                                        !.onError = onError],
                          i, outcome, sync))

NextFaulty ==
    \/ Next
    \/ EnqueueMalformed
    \/ TimerFiresMalformed
    \/ SettleRaising

SpecFaulty == InitSmall /\ [][NextFaulty]_vars

\* An instance that is given a single operation.
InitSingle == InitWith(SingleOp)

SpecFaultySingle == InitSingle /\ [][NextFaulty]_vars

\* cancel called with the id that a debounced enqueue returned, while the
\* timer of that operation is live; the call is remembered.
CancelDebouncing ==
    \E t \in liveTimers :
        Becomes([cancel(State, t.op) EXCEPT !.missed = @ \cup {t.op}])

\* enqueue(operation, false) called while a debounced operation of the
\* same kind is waiting on its timer; the two are remembered.
EnqueueBeside ==
    /\ Len(ops) < opLimit
    /\ \E t \in liveTimers, priority \in Priorities, sync \in Behaviours :
          Becomes([EnqueueNow(State, ops[t.op].type, priority, sync)
                     EXCEPT !.beside = @ \cup {t.op, Len(ops) + 1}])

NextBeside == \/ Next \/ EnqueueBeside

SpecBeside == InitSmall /\ [][NextBeside]_vars

NextDebouncing ==
    \/ Next
    \/ CancelDebouncing

SpecDebouncing == InitSmall /\ [][NextDebouncing]_vars

\* ----------------------------------------------------------- consent flow
\* STEP_ORDER.indexOf(step): from 0, -1 when absent
IndexOfStep(step) ==
    IF \E i \in 1..Len(STEP_ORDER) : STEP_ORDER[i] = step
    THEN (CHOOSE i \in 1..Len(STEP_ORDER) : STEP_ORDER[i] = step) - 1
    ELSE -1

completedSteps(c) ==
    LET currentIndex == IndexOfStep(c.currentStep)
    IN  IF currentIndex = -1 THEN <<>>
        ELSE Slice(STEP_ORDER, 0, currentIndex)

canGoBack(c) == c.currentStep = "privacy" \/ c.currentStep = "preferences"

\* (variant) the privacy step does not ask for the age check
canProceedUnverified(c) ==
    CASE c.currentStep = "welcome" -> TRUE
      [] c.currentStep = "privacy" -> TRUE
      [] c.currentStep = "preferences" -> FALSE
      [] OTHER -> FALSE

canProceed(c) ==
    CASE c.currentStep = "welcome" -> TRUE
      [] c.currentStep = "privacy" -> c.ageVerified
      [] c.currentStep = "preferences" -> FALSE
      [] OTHER -> FALSE

nextStep(c) ==
    LET currentIndex == IndexOfStep(c.currentStep)
    IN  IF currentIndex = -1 \/ currentIndex = Len(STEP_ORDER) - 1 THEN c
        ELSE IF ~canProceed(c) THEN c
        ELSE [c EXCEPT !.currentStep = STEP_ORDER[(currentIndex + 1) + 1]]

\* (variant) going back always lands on the first step
prevStepToFirst(c) ==
    LET currentIndex == IndexOfStep(c.currentStep)
    IN  IF currentIndex = -1 \/ currentIndex = 0 THEN c
        ELSE [c EXCEPT !.currentStep = STEP_ORDER[1]]

prevStep(c) ==
    LET currentIndex == IndexOfStep(c.currentStep)
    IN  IF currentIndex = -1 \/ currentIndex = 0 THEN c
        ELSE [c EXCEPT !.currentStep = STEP_ORDER[(currentIndex - 1) + 1]]

\* (variant) any later step is reached when canProceed
goToStepSkipping(c, step) ==
    LET targetIndex == IndexOfStep(step)
        currentIndex == IndexOfStep(c.currentStep)
    IN  IF targetIndex = -1 THEN c
        ELSE IF targetIndex < currentIndex
        THEN [c EXCEPT !.currentStep = step]
        ELSE IF targetIndex > currentIndex /\ canProceed(c)
        THEN [c EXCEPT !.currentStep = step]
        ELSE c

goToStep(c, step) ==
    LET targetIndex == IndexOfStep(step)
        currentIndex == IndexOfStep(c.currentStep)
    IN  IF targetIndex = -1 THEN c
        ELSE IF targetIndex < currentIndex
        THEN [c EXCEPT !.currentStep = step]
        ELSE IF targetIndex = currentIndex + 1 /\ canProceed(c)
        THEN [c EXCEPT !.currentStep = step]
        ELSE c

\* (variant) the stored categories are passed through
buildSubmissionAsStored(c) ==
    [categories |-> c.categories,
     preciseLocation |-> c.preciseLocation,
     ageVerified |-> c.ageVerified,
     optionalHandle |-> c.optionalHandle,
     preferences |-> [theme |-> c.theme, darkMode |-> c.darkMode],
     resetToDefaults |-> FALSE]

buildSubmission(c) ==
    [categories |->
        [essential |-> TRUE, preferences |-> FALSE, functional |-> FALSE,
         tracking |-> c.categories.tracking, performance |-> FALSE],
     preciseLocation |-> c.preciseLocation,
     ageVerified |-> c.ageVerified,
     optionalHandle |-> c.optionalHandle,
     preferences |-> [theme |-> c.theme, darkMode |-> c.darkMode],
     resetToDefaults |-> FALSE]

\* settings: [hasCategories, consentCategories, theme, darkMode, handle],
\* with Absent for a missing or empty string
restoreFromTempo(c, settings) ==
    [c EXCEPT
        !.categories = IF settings.hasCategories
                       THEN settings.consentCategories ELSE @,
        !.theme = IF settings.theme # Absent THEN settings.theme ELSE @,
        !.darkMode = IF settings.darkMode # Absent
                     THEN settings.darkMode ELSE @,
        !.optionalHandle = IF settings.handle # Absent
                           THEN settings.handle ELSE @,
        !.restoredFromTempo = TRUE]

resetToDefaults(c) == ConsentDefaults

RestorableSettings ==
    [hasCategories : BOOLEAN, consentCategories : CategoryValues,
     theme : Themes \cup {Absent}, darkMode : DarkModes \cup {Absent},
     handle : {Absent, "jessie"}]

\* A step of the consent flow that leaves c as the new state
ConsentBecomes(c) ==
    /\ consent' = c
    /\ lastNav' = <<>>
    /\ UNCHANGED <<submission, queueVars, lifecycleVars, draftVars, workerVars>>

\* A navigation call made at the current step that leaves c as the new state
Navigates(call, c) ==
    /\ consent' = c
    /\ lastNav' = <<[call |-> call, from |-> consent.currentStep]>>
    /\ UNCHANGED <<submission, queueVars, lifecycleVars, draftVars, workerVars>>

NextStep == \E c \in {nextStep(consent)} : Navigates("nextStep", c)

PrevStep == \E c \in {prevStep(consent)} : Navigates("prevStep", c)

GoToStep ==
    \E c \in {goToStep(consent, step) : step \in StepValues} :
        Navigates("goToStep", c)

\* The setters of the returned object
SetCurrentStep ==
    \E c \in {[consent EXCEPT !.currentStep = v] : v \in StepValues} :
        ConsentBecomes(c)

SetAgeVerified ==
    \E c \in {[consent EXCEPT !.ageVerified = v] : v \in BOOLEAN} :
        ConsentBecomes(c)

SetPreciseLocation ==
    \E c \in {[consent EXCEPT !.preciseLocation = v] : v \in BOOLEAN} :
        ConsentBecomes(c)

SetCategories ==
    \E c \in {[consent EXCEPT !.categories = v] : v \in CategoryValues} :
        ConsentBecomes(c)

SetOptionalHandle ==
    \E c \in {[consent EXCEPT !.optionalHandle = v] : v \in Handles} :
        ConsentBecomes(c)

SetPreferences ==
    \E c \in {[consent EXCEPT !.theme = t, !.darkMode = d] :
                  t \in Themes, d \in DarkModes} :
        ConsentBecomes(c)

RestoreFromTempo ==
    \E c \in {restoreFromTempo(consent, settings) :
                  settings \in RestorableSettings} :
        ConsentBecomes(c)

ResetToDefaults ==
    /\ consent' = resetToDefaults(consent)
    /\ lastNav' = <<>>
    /\ UNCHANGED <<submission, queueVars, lifecycleVars, draftVars, workerVars>>

BuildSubmission ==
    /\ submission' = <<buildSubmission(consent)>>
    /\ lastNav' = <<>>
    /\ UNCHANGED <<consent, queueVars, lifecycleVars, draftVars, workerVars>>

\* The calls that write the state
WriteConsent ==
    \/ SetCurrentStep
    \/ SetAgeVerified
    \/ SetPreciseLocation
    \/ SetCategories
    \/ SetOptionalHandle
    \/ SetPreferences
    \/ RestoreFromTempo
    \/ ResetToDefaults

\* Moving through the steps
NextConsent ==
    \/ NextStep
    \/ PrevStep
    \/ GoToStep
    \/ WriteConsent

\* Building the payload from any state the setters can produce
NextSubmission ==
    \/ WriteConsent
    \/ BuildSubmission

\* The consent flow next to a queue that stays as constructed
InitConsent == InitSingle /\ MAX_ERRORS = MaxErrorsCap

SpecConsent == InitConsent /\ [][NextConsent]_vars

SpecSubmission == InitConsent /\ [][NextSubmission]_vars

\* -------------------------------------------------------------- lifecycle
\* The lifecycle state as one record.  invoked and exc are the trace of the
\* call being modelled: the cleanup functions it invoked, in order, and
\* whether an exception is propagating.
Lifecycle ==
    [functions |-> functions, cleanupFunctions |-> cleanupFunctions,
     timers |-> timers, cleared |-> cleared, debouncedFn |-> debouncedFn,
     timeouts |-> timeouts, burst |-> burst,
     lastInvocation |-> lastInvocation,
     invoked |-> <<>>, exc |-> FALSE]

\* Set.prototype.add and Set.prototype.delete on a Set kept in insertion
\* order
SetAdd(set, x) ==
    IF \E i \in 1..Len(set) : set[i] = x THEN set ELSE Append(set, x)

SetDelete(set, x) == Filter(set, Range(set) \ {x})

addCleanup(l, fn) ==
    [l EXCEPT !.cleanupFunctions = SetAdd(@, fn)]

\* debounced.cancel
debouncedCancel(l) ==
    [l EXCEPT !.timeouts = {t \in @ : ~t.tracked}]

\* A call of the function fn, by what it does
Invoke(l, fn) ==
    LET called == [l EXCEPT !.invoked = Append(@, fn)]
        kind == l.functions[fn]
    IN  CASE kind = "returns" -> called
          [] kind = "raises" -> [called EXCEPT !.exc = TRUE]
          [] kind = "clearTimeout" ->
                [called EXCEPT !.timers = {t \in @ : t.id # fn},
                               !.cleared = @ \cup {fn}]
          [] kind = "cancel" -> debouncedCancel(called)

\* The function that addCleanup(fn) returned
remover(l, fn) ==
    Invoke([l EXCEPT !.cleanupFunctions = SetDelete(@, fn)], fn)

\* cleanupFunctions.forEach(fn => fn()), from the i-th element on; an
\* exception ends the iteration
RECURSIVE ForEachFrom(_, _)
ForEachFrom(l, i) ==
    IF i > Len(l.cleanupFunctions) THEN l
    ELSE LET r == Invoke(l, l.cleanupFunctions[i])
         IN  IF r.exc THEN r ELSE ForEachFrom(r, i + 1)

cleanup(l) ==
    LET r == ForEachFrom(l, 1)
    IN  IF r.exc THEN r ELSE [r EXCEPT !.cleanupFunctions = <<>>]

\* setTimer(callback, delay) in a browser; the function it registers is the
\* next of the table
setTimer(l, delay) ==
    LET fn == Len(l.functions) + 1
    IN  addCleanup([l EXCEPT !.functions = Append(@, "clearTimeout"),
                             !.timers = @ \cup {[id |-> fn,
                                                 remaining |-> delay]}],
                   fn)

\* debounce(fn, delay) with a function fn of the given kind
debounce(l, kind) ==
    addCleanup([l EXCEPT !.functions = Append(@, "cancel"),
                         !.debouncedFn = kind],
               Len(l.functions) + 1)

FreeTimeout(l) ==
    CHOOSE id \in 1..MaxTimeouts : \A t \in l.timeouts : t.id # id

\* debounced(args): clears the timer that timeoutId holds and sets a new
\* one
debounced(l, args) ==
    LET untracked == debouncedCancel(l)
    IN  [untracked EXCEPT
            !.timeouts = @ \cup {[id |-> FreeTimeout(untracked),
                                  remaining |-> DEBOUNCE_DELAY,
                                  args |-> args, tracked |-> TRUE]},
            !.burst = <<[args |-> args, age |-> 0, voided |-> FALSE,
                         invoked |-> 0]>>]

\* The callback of the timer t of the debounced function: fn(...args), then
\* timeoutId = null
timeoutCallback(l, t) ==
    LET nth == Min(l.burst[1].invoked + 1, 2)
        fired == [l EXCEPT
                    !.timeouts = @ \ {t},
                    !.burst = <<[@[1] EXCEPT !.invoked = nth]>>,
                    !.lastInvocation =
                        <<[args |-> t.args,
                           called |-> l.burst[1].args,
                           age |-> l.burst[1].age,
                           voided |-> l.burst[1].voided,
                           nth |-> nth]>>]
        after == IF l.debouncedFn = "recall"
                 THEN debounced(fired, t.args)
                 ELSE fired
    IN  [after EXCEPT
            !.timeouts = {[u EXCEPT !.tracked = FALSE] : u \in @}]

\* cancel or cleanup was called: the burst is called off
Voided(l) ==
    [l EXCEPT !.burst = IF @ = <<>> THEN @
                        ELSE <<[@[1] EXCEPT !.voided = TRUE]>>]

\* A step that leaves l as the lifecycle state
LifecycleBecomes(l) ==
    /\ functions' = l.functions
    /\ cleanupFunctions' = l.cleanupFunctions
    /\ timers' = l.timers
    /\ cleared' = l.cleared
    /\ debouncedFn' = l.debouncedFn
    /\ timeouts' = l.timeouts
    /\ burst' = l.burst
    /\ lastInvocation' = l.lastInvocation
    /\ UNCHANGED <<queueVars, consentVars, draftVars, workerVars>>

\* The last call was neither cleanup() nor that of a returned function
OtherCall ==
    /\ lastCleanup' = <<>>
    /\ lastDisposal' = <<>>

\* addCleanup with a new function, or with one that was given before
AddCleanup ==
    /\ \/ /\ Len(functions) < MaxFns
          /\ \E kind \in CleanupKinds :
                LifecycleBecomes(
                    addCleanup([Lifecycle EXCEPT
                                    !.functions = Append(@, kind)],
                               Len(functions) + 1))
       \/ \E fn \in 1..Len(functions) :
             /\ functions[fn] \in CleanupKinds
             /\ LifecycleBecomes(addCleanup(Lifecycle, fn))
    /\ OtherCall

\* A call of the function that addCleanup or setTimer returned
Remover ==
    \E fn \in 1..Len(functions) :
        LET l == remover(Lifecycle, fn)
        IN  /\ functions[fn] # "cancel"
            /\ LifecycleBecomes(l)
            /\ lastCleanup' = <<>>
            /\ lastDisposal' = <<[fn |-> fn, invoked |-> l.invoked,
                                  after |-> l.cleanupFunctions]>>

SetTimerCall ==
    /\ Len(functions) < MaxFns
    /\ \E delay \in TimerDelays : LifecycleBecomes(setTimer(Lifecycle, delay))
    /\ OtherCall

DebounceCall ==
    /\ Len(functions) < MaxFns
    /\ debouncedFn = NoDebounce
    /\ \E kind \in FnKinds : LifecycleBecomes(debounce(Lifecycle, kind))
    /\ OtherCall

DebouncedCall ==
    /\ debouncedFn # NoDebounce
    /\ Cardinality({t \in timeouts : ~t.tracked}) < MaxTimeouts
    /\ \E args \in Args : LifecycleBecomes(debounced(Lifecycle, args))
    /\ OtherCall

DebouncedCancel ==
    /\ debouncedFn # NoDebounce
    /\ LifecycleBecomes(Voided(debouncedCancel(Lifecycle)))
    /\ OtherCall

Cleanup ==
    LET l == cleanup(Lifecycle)
    IN  /\ LifecycleBecomes(Voided(l))
        /\ lastCleanup' = <<[before |-> cleanupFunctions,
                             invoked |-> l.invoked,
                             after |-> l.cleanupFunctions]>>
        /\ lastDisposal' = <<>>

\* The callback of a setTimer timer runs
TimerExpires ==
    /\ \E t \in timers :
          /\ t.remaining = 0
          /\ LifecycleBecomes([Lifecycle EXCEPT !.timers = @ \ {t}])
    /\ OtherCall

\* The callback of a timer of the debounced function runs
TimeoutExpires ==
    /\ \E t \in timeouts :
          /\ t.remaining = 0
          /\ \/ debouncedFn # "recall"
             \/ Cardinality({u \in timeouts \ {t} : ~u.tracked})
                    < MaxTimeouts
          /\ LifecycleBecomes(timeoutCallback(Lifecycle, t))
    /\ OtherCall

\* Time passes; a timer that is due runs first
LifecycleTick ==
    /\ timers # {} \/ timeouts # {}
    /\ \A t \in timers \cup timeouts : t.remaining > 0
    /\ LifecycleBecomes(
          [Lifecycle EXCEPT
              !.timers = {[t EXCEPT !.remaining = @ - 1] : t \in @},
              !.timeouts = {[t EXCEPT !.remaining = @ - 1] : t \in @},
              !.burst = IF @ = <<>> THEN @
                        ELSE <<[@[1] EXCEPT
                                  !.age = Min(@ + 1, DEBOUNCE_DELAY + 1)]>>])
    /\ OtherCall

\* The registry with cleanup functions and setTimer timers
NextLifecycle ==
    \/ AddCleanup
    \/ Remover
    \/ SetTimerCall
    \/ Cleanup
    \/ TimerExpires
    \/ LifecycleTick

SpecLifecycle == InitConsent /\ [][NextLifecycle]_vars

\* The registry with cleanup functions and a debounced function
NextDebounce ==
    \/ AddCleanup
    \/ DebounceCall
    \/ DebouncedCall
    \/ DebouncedCancel
    \/ Cleanup
    \/ TimeoutExpires
    \/ LifecycleTick

SpecDebounce == InitConsent /\ [][NextDebounce]_vars

\* ------------------------------------------------------ draft persistence
\* saveDraft before it hands the operation to the queue
saveDraft(d) == [d EXCEPT !.isDirty = TRUE]

\* The action of a save operation up to its first await
executeStart(d) == [d EXCEPT !.isSaving = TRUE]

\* (variant) the response's version is stored as the local version only
executeSavedLocalOnly(d, version) ==
    [d EXCEPT !.hasConflict = IF version > d.localVersion + 1 THEN TRUE
                              ELSE @,
              !.localVersion = version,
              !.isDirty = FALSE,
              !.lastSaved = TRUE,
              !.isSaving = FALSE]

\* The rest of the action when the response is ok and carries version
executeSaved(d, version) ==
    [d EXCEPT !.hasConflict = IF version > d.localVersion + 1 THEN TRUE
                              ELSE @,
              !.localVersion = version,
              !.serverVersion = version,
              !.isDirty = FALSE,
              !.lastSaved = TRUE,
              !.isSaving = FALSE]

\* The rest of the action when fetch rejects or the response is not ok:
\* the error is thrown on, the finally block runs
executeFailed(d) == [d EXCEPT !.isSaving = FALSE]

\* loadDraft once the response is there and holds a draft
loadDraft(d, version) ==
    [d EXCEPT !.serverVersion = version,
              !.localVersion = version,
              !.lastSaved = TRUE]

\* deleteDraft once the response is there and is ok
deleteDraft(d) ==
    [d EXCEPT !.isDirty = FALSE,
              !.lastSaved = FALSE,
              !.localVersion = 0,
              !.serverVersion = 0]

markClean(d) == [d EXCEPT !.isDirty = FALSE]

acceptServerVersion(d) ==
    [d EXCEPT !.hasConflict = FALSE,
              !.localVersion = d.serverVersion]

\* The operation whose action the queue invoked on the way from s to s2
Invoked(s, s2) ==
    IF Len(s2.startLog) > Len(s.startLog)
    THEN s2.startLog[Len(s2.startLog)]
    ELSE NoOp

\* The draft state after the queue went from s to s2: a save action that
\* was invoked has run up to its await
AfterQueueStep(d, s, s2) ==
    IF Invoked(s, s2) # NoOp /\ contents[Invoked(s, s2)] # NoContent
    THEN executeStart(d)
    ELSE d

\* A step that leaves the queue as s2 and the draft state as d
DraftBecomes(s2, d, call, version) ==
    /\ QueueBecomes(s2)
    /\ draft' = d
    /\ lastDraftCall' = [call |-> call, version |-> version]
    /\ UNCHANGED <<consentVars, lifecycleVars, workerVars>>

SaveDraft ==
    /\ Len(ops) < opLimit
    /\ \E content \in Contents :
          /\ DraftBecomes(EnqueueDebounced(State, "autosave", 0),
                          saveDraft(draft), "saveDraft", NoVersion)
          /\ contents' = Append(contents, content)

\* Somebody else submits a publish operation to the same queue, without
\* the debounce
PublishEnqueue ==
    /\ Len(ops) < opLimit
    /\ \E priority \in Priorities :
          /\ DraftBecomes(EnqueueNow(State, "publish", priority, "plain"),
                          draft, "queue", NoVersion)
          /\ contents' = Append(contents, NoContent)

\* The debounce timer of a save fires
SaveTimerFires ==
    \E t \in liveTimers :
        LET s2 == TimerCallback(State, t.op, "plain")
        IN  /\ t.left = 0
            /\ DraftBecomes(s2, AfterQueueStep(draft, State, s2),
                            "queue", NoVersion)
            /\ contents' = contents

\* The request of the running save is answered with a version
SaveResponds ==
    \E i \in 1..Len(awaiting), version \in Versions :
        LET s2 == Resume(State, i, "ok", "plain")
        IN  /\ contents[awaiting[i]] # NoContent
            /\ DraftBecomes(s2,
                   AfterQueueStep(executeSaved(draft, version), State, s2),
                   "saved", version)
            /\ contents' = contents

\* The request of the running save fails
SaveFails ==
    \E i \in 1..Len(awaiting) :
        LET s2 == Resume(State, i, "fail", "plain")
        IN  /\ contents[awaiting[i]] # NoContent
            /\ DraftBecomes(s2,
                   AfterQueueStep(executeFailed(draft), State, s2),
                   "failed", NoVersion)
            /\ contents' = contents

\* The running publish operation settles
PublishSettles ==
    \E i \in 1..Len(awaiting), outcome \in Outcomes :
        LET s2 == Resume(State, i, outcome, "plain")
        IN  /\ contents[awaiting[i]] = NoContent
            /\ DraftBecomes(s2, AfterQueueStep(draft, State, s2),
                            "queue", NoVersion)
            /\ contents' = contents

\* cancelAll and flush called on the queue
QueueCancelAll ==
    /\ DraftBecomes(cancelAll(State), draft, "queue", NoVersion)
    /\ contents' = contents

QueueFlush ==
    LET s2 == flush(State, "plain")
    IN  /\ DraftBecomes(s2, AfterQueueStep(draft, State, s2),
                        "queue", NoVersion)
        /\ contents' = contents

\* A step of the draft state alone
DraftAlone(d, call, version) ==
    /\ draft' = d
    /\ lastDraftCall' = [call |-> call, version |-> version]
    /\ UNCHANGED <<queueVars, contents, consentVars, lifecycleVars,
                   workerVars>>

\* The response to loadDraft arrives: a draft with a version, or none
LoadDraft ==
    \E version \in Versions \cup {NoVersion} :
        \E d \in {IF version = NoVersion THEN draft
                  ELSE loadDraft(draft, version)} :
            DraftAlone(d, "loadDraft", version)

\* The response to deleteDraft arrives: ok or not
DeleteDraft ==
    \E ok \in BOOLEAN :
        \E d \in {IF ok THEN deleteDraft(draft) ELSE draft} :
            DraftAlone(d, "deleteDraft", NoVersion)

MarkClean ==
    \E d \in {markClean(draft)} : DraftAlone(d, "markClean", NoVersion)

AcceptServerVersion ==
    \E d \in {acceptServerVersion(draft)} :
        DraftAlone(d, "acceptServerVersion", NoVersion)

DraftTick ==
    /\ QueueTick
    /\ lastDraftCall' = [call |-> "queue", version |-> NoVersion]
    /\ UNCHANGED <<draft, contents, consentVars, lifecycleVars,
                   workerVars>>

\* saveDraft calls and what the shared queue does with them
NextDraftSaves ==
    \/ SaveDraft
    \/ PublishEnqueue
    \/ SaveTimerFires
    \/ SaveResponds
    \/ SaveFails
    \/ PublishSettles
    \/ QueueCancelAll
    \/ QueueFlush
    \/ DraftTick

\* The whole API
NextDraft ==
    \/ NextDraftSaves
    \/ LoadDraft
    \/ DeleteDraft
    \/ MarkClean
    \/ AcceptServerVersion

InitDraft == InitSmall /\ MAX_ERRORS = MaxErrorsCap

SpecDraftSaves == InitDraft /\ [][NextDraftSaves]_vars

SpecDraft == InitConsent /\ [][NextDraft]_vars

\* ----------------------------------------------------------------- worker
\* The worker state as one record
WorkerState ==
    [worker |-> worker, isReady |-> isReady, lastError |-> lastError,
     pendingRequests |-> pendingRequests, messageId |-> messageId,
     pendingPromises |-> pendingPromises, effectLive |-> effectLive,
     requests |-> requests, posted |-> posted,
     lastWorkerCall |-> lastWorkerCall]

Ready(w) == w.worker /\ w.isReady

\* resolve or reject of the promise of request id is called
SettleCall(w, id, call) ==
    [w EXCEPT !.requests[id].calls = Append(@, call)]

\* pendingPromises.forEach(({ reject }) => reject(new Error('Worker
\* terminated'))); pendingPromises.clear()
RejectAllAndClear(w) ==
    [w EXCEPT !.requests =
                  [i \in DOMAIN @ |->
                      IF i \in w.pendingPromises
                      THEN [@[i] EXCEPT
                              !.calls = Append(@, "Worker terminated")]
                      ELSE @[i]],
              !.pendingPromises = {}]

Called(w, call, id, result) ==
    [w EXCEPT !.lastWorkerCall = [call |-> call, id |-> id,
                                  ready |-> Ready(w), result |-> result]]

\* The body of the effect: new Worker(...) succeeds or throws
effectBody(w, created) ==
    IF created
    THEN [w EXCEPT !.worker = TRUE, !.isReady = TRUE, !.lastError = FALSE,
                   !.effectLive = TRUE]
    ELSE [w EXCEPT !.lastError = TRUE, !.isReady = FALSE,
                   !.effectLive = TRUE]

\* The function the effect returns
effectCleanup(w) ==
    LET w1 == IF w.worker
              THEN [w EXCEPT !.worker = FALSE, !.isReady = FALSE]
              ELSE w
    IN  [RejectAllAndClear(w1) EXCEPT !.pendingRequests = 0,
                                      !.effectLive = FALSE]

\* (variant) the count is lowered for every response
handleMessageUncounted(w, id, success) ==
    IF id \in w.pendingPromises
    THEN [SettleCall(w, id, IF success THEN "resolve" ELSE "reject")
            EXCEPT !.pendingPromises = @ \ {id},
                   !.pendingRequests = @ - 1]
    ELSE [w EXCEPT !.pendingRequests = @ - 1]

\* worker.onmessage
handleMessage(w, id, success) ==
    IF id \in w.pendingPromises
    THEN [SettleCall(w, id, IF success THEN "resolve" ELSE "reject")
            EXCEPT !.pendingPromises = @ \ {id},
                   !.pendingRequests = @ - 1]
    ELSE w

\* worker.onerror
handleError(w) == [w EXCEPT !.lastError = TRUE]

\* The part of sendMessage behind the guard; delivered says whether
\* worker.postMessage returned or threw
sendMessageReady(w, delivered) ==
    LET id == w.messageId + 1
        w1 == [w EXCEPT !.messageId = id,
                        !.pendingRequests = @ + 1,
                        !.requests = Append(@, [kind |-> "request",
                                                calls |-> <<>>]),
                        !.pendingPromises = @ \cup {id}]
    IN  IF delivered
        THEN Called([w1 EXCEPT !.posted = @ \cup {id}],
                    "sendMessage", id, "pending")
        ELSE Called([SettleCall(w1, id, "post failed")
                       EXCEPT !.pendingPromises = @ \ {id},
                              !.pendingRequests = @ - 1],
                    "sendMessage", id, "post failed")

\* (variant) without the guard
sendMessageUnguarded(w, delivered) == sendMessageReady(w, delivered)

sendMessage(w, delivered) ==
    IF ~w.worker \/ ~w.isReady
    THEN Called(w, "sendMessage", UnknownId, "Worker not ready")
    ELSE sendMessageReady(w, delivered)

\* postMessage: no promise; the id is taken before worker.postMessage is
\* tried
postMessage(w, delivered) ==
    IF ~w.worker \/ ~w.isReady
    THEN w
    ELSE LET id == w.messageId + 1
         IN  [w EXCEPT !.messageId = id,
                       !.requests = Append(@, [kind |-> "post",
                                               calls |-> <<>>]),
                       !.posted = IF delivered THEN @ \cup {id} ELSE @]

\* (variant) the entries stay in the Map
terminateKeeping(w) ==
    IF w.worker
    THEN [w EXCEPT !.worker = FALSE, !.isReady = FALSE,
                   !.lastError = FALSE, !.pendingRequests = 0,
                   !.requests =
                       [i \in DOMAIN @ |->
                           IF i \in w.pendingPromises
                           THEN [@[i] EXCEPT
                                   !.calls = Append(@, "Worker terminated")]
                           ELSE @[i]]]
    ELSE w

terminate(w) ==
    IF w.worker
    THEN RejectAllAndClear([w EXCEPT !.worker = FALSE, !.isReady = FALSE,
                                     !.lastError = FALSE,
                                     !.pendingRequests = 0])
    ELSE w

WorkerBecomes(w) ==
    /\ worker' = w.worker
    /\ isReady' = w.isReady
    /\ lastError' = w.lastError
    /\ pendingRequests' = w.pendingRequests
    /\ messageId' = w.messageId
    /\ pendingPromises' = w.pendingPromises
    /\ effectLive' = w.effectLive
    /\ requests' = w.requests
    /\ posted' = w.posted
    /\ lastWorkerCall' = w.lastWorkerCall
    /\ UNCHANGED <<queueVars, consentVars, lifecycleVars, draftVars>>

\* The effect runs, in a browser and enabled
EffectRuns ==
    /\ ~effectLive
    /\ \E created \in BOOLEAN :
          WorkerBecomes(Called(effectBody(WorkerState, created),
                               "effect", UnknownId, "none"))

\* The effect is torn down, to run again or for good
EffectCleanup ==
    /\ effectLive
    /\ \E w \in {effectCleanup(WorkerState)} :
          WorkerBecomes(Called(w, "cleanup", UnknownId, "none"))

SendMessage ==
    /\ Ready(WorkerState) => messageId < MaxMessages
    /\ \E delivered \in BOOLEAN :
          WorkerBecomes(sendMessage(WorkerState, delivered))

PostMessage ==
    /\ Ready(WorkerState) => messageId < MaxMessages
    /\ \E delivered \in BOOLEAN :
          WorkerBecomes(Called(postMessage(WorkerState, delivered),
                               "postMessage", UnknownId, "none"))

\* The worker answers, with the id of a request, of a post, of a request
\* answered before or with one never handed out
Respond ==
    /\ worker
    /\ \E id \in UnknownId..MaxMessages, success \in BOOLEAN :
          WorkerBecomes(Called(handleMessage(WorkerState, id, success),
                               "response", id,
                               IF success THEN "resolve" ELSE "reject"))

WorkerFails ==
    /\ worker
    /\ \E w \in {handleError(WorkerState)} :
          WorkerBecomes(Called(w, "error", UnknownId, "none"))

Terminate ==
    \E w \in {terminate(WorkerState)} :
        WorkerBecomes(Called(w, "terminate", UnknownId, "none"))

NextWorker ==
    \/ EffectRuns
    \/ EffectCleanup
    \/ SendMessage
    \/ PostMessage
    \/ Respond
    \/ WorkerFails
    \/ Terminate

SpecWorker == InitConsent /\ [][NextWorker]_vars

\* ------------------------------------------------------------ properties
Prio(id) == ops[id].priority

Submitted == 1..Len(ops)

\* position of an id in a log that holds it once
IndexIn(log, id) == CHOOSE i \in 1..Len(log) : log[i] = id

\* the entries of a that are in keep, in a's order
Common(a, keep) == Filter(a, keep)

\* A step in which the awaited promise of the running action settles: the
\* activation goes away or goes on to invoke the next action.
SettleStep == awaiting # <<>> /\ (awaiting' = <<>> \/ startLog' # startLog)

\* C1: serial execution: in every reachable state at most one action is in
\* flight (invoked and not yet settled), whatever enqueue, timer expiry,
\* cancel, cancelAll and flush do in between; an action is invoked only
\* in a step that leaves no other action in flight.
SerialExecution == Len(awaiting) <= 1

\* an action is running while another operation, inserted during the run,
\* waits behind it in pending
SerialExecutionWitness ==
    /\ Len(awaiting) = 1
    /\ Len(queue) >= 2
    /\ queue[1] = awaiting[1]
    /\ Len(startLog) = 1


\* C2: at-most-once execution: no operation's action is invoked more than
\* once, and the entry the loop removes from pending after an action has
\* settled is the operation that was just executed.
AtMostOnce ==
    /\ \A id \in Submitted : Count(startLog, id) <= 1
    /\ lastIter.op # NoOp => lastIter.removed \in {lastIter.op, NoOp}

\* C3: no lost operation: an operation that was inserted into pending and
\* that neither cancel nor cancelAll took out is executed; stated on the
\* states where it has left pending, after which nothing can execute it.
NoLostOperation ==
    \A id \in Range(insertLog) :
        (id \notin cancelled /\ id \notin Range(queue))
            => id \in Range(startLog)

\* C4: priority without preemption: when the running operation R settles
\* while an operation H that has not started waits in pending with a
\* priority above every other waiting operation, R has run exactly once
\* and H is the action invoked next.
PriorityNoPreemptionStep ==
    SettleStep =>
        LET R == awaiting[1]
        IN  \A H \in Range(queue) \ {R} :
                (/\ H \notin Range(startLog)
                 /\ \A W \in Range(queue) \ {R, H} : Prio(W) < Prio(H))
                => /\ startLog' = Append(startLog, H)
                   /\ Count(startLog', R) = 1

PriorityNoPreemption == [][PriorityNoPreemptionStep]_vars

\* C5: priority execution order: once a batch submitted without debounce
\* on the idle queue has been worked off, every action has been invoked
\* exactly once, in descending priority with ties in submission order; the
\* batch of priorities 0, 10, 0, 5 runs as second, fourth, first, third.
Rank(id) ==
    1 + Cardinality({j \in Submitted :
                        \/ Prio(j) > Prio(id)
                        \/ Prio(j) = Prio(id) /\ j < id})

BatchDone == ops # <<>> /\ queue = <<>> /\ awaiting = <<>>

PriorityExecutionOrder ==
    BatchDone =>
        /\ Len(startLog) = Len(ops)
        /\ \A id \in Submitted : startLog[Rank(id)] = id
        /\ [i \in Submitted |-> Prio(i)] = <<0, 10, 0, 5>>
              => startLog = <<2, 4, 1, 3>>

\* C6: pending-order invariant: pending is sorted by non-increasing
\* priority with equal priorities in insertion order; an insertion puts
\* the new entry behind every entry of its priority or higher and in front
\* of every lower one; every step keeps the relative order of the entries
\* that stay.
PendingSorted ==
    \A i, j \in 1..Len(queue) :
        i < j => /\ Prio(queue[i]) >= Prio(queue[j])
                 /\ Prio(queue[i]) = Prio(queue[j])
                      => IndexIn(insertLog, queue[i])
                           < IndexIn(insertLog, queue[j])

PendingOrderStep ==
    /\ Common(queue, Range(queue')) = Common(queue', Range(queue))
    /\ insertLog' # insertLog =>
          LET id == insertLog'[Len(insertLog')]
          IN  id \in Range(queue') =>
                LET at == IndexIn(queue', id)
                IN  /\ \A i \in 1..(at - 1) :
                          ops'[queue'[i]].priority >= ops'[id].priority
                    /\ \A i \in (at + 1)..Len(queue') :
                          ops'[queue'[i]].priority < ops'[id].priority

DebounceCoalescing ==
    superseded \cap (Range(insertLog) \cup Range(startLog)) = {}

\* C8: cancelAll discards debounced work: an operation whose timer was
\* still waiting when cancelAll was called is never inserted into pending,
\* never executed and never reported, and cancelAll leaves debounceTimers
\* empty.
CancelAllDiscards ==
    /\ discarded \cap (Range(insertLog) \cup Range(startLog)) = {}
    /\ lastIter.op \notin discarded

CancelAllClearsMap ==
    CancelAll => \A k \in Kinds : debounceTimers'[k] = NoOp

CancelAllDiscardsDebounced ==
    []CancelAllDiscards /\ [][CancelAllClearsMap]_vars

\* C9: error containment: in the step in which the action of R fails,
\* onError is called, errors gets a record of R at its front, R is no
\* longer in pending, and the action of the first other pending operation
\* is the one invoked next.
ErrorContainmentStep ==
    (SettleStep /\ lastIter'.outcome = "fail") =>
        LET R == awaiting[1]
            others == Common(queue, Range(queue) \ {R})
        IN  /\ lastIter'.op = R
            /\ lastIter'.onError
            /\ Len(errors') >= 1
            /\ errors'[1] = R
            /\ R \notin Range(queue')
            /\ others # <<>> => startLog' = Append(startLog, others[1])

ErrorContainment == [][ErrorContainmentStep]_vars

\* C10: error-history cap: the length of errors never exceeds the
\* configured maxErrors, for every maxErrors >= 0.
ErrorCap == Len(errors) <= MAX_ERRORS

\* C11: flush() forces debounced work through: every operation still
\* waiting on its debounce timer when flush is called is placed into
\* pending by the call itself, in priority order, and processing starts.
FlushForcesStep ==
    Flush => /\ \A t \in liveTimers : t.op \in Range(insertLog')
             /\ \A i \in 1..(Len(queue') - 1) :
                    ops'[queue'[i]].priority >= ops'[queue'[i + 1]].priority
             /\ queue' # <<>> => isProcessing'

FlushForcesDebounced == [][FlushForcesStep]_vars

\* flush returns the promise of its processQueue() call.  That call returns
\* at its first line, with a promise that is already resolved, when the loop
\* is running or pending is empty.
FlushResolvesAtOnce == isProcessing \/ Len(queue) = 0

\* C12: flush completion: at the moment the promise returned by flush
\* resolves, every operation that was in pending or executing when flush
\* was called has finished executing, isProcessing is false and pending
\* holds none of those operations, also when flush is called while the
\* loop is running.
FlushCompletionStep ==
    (Flush /\ FlushResolvesAtOnce) =>
        /\ ~isProcessing'
        /\ awaiting' = <<>>
        /\ Range(queue) \cap Range(queue') = {}
        /\ Range(queue) \subseteq Range(startLog')

FlushCompletion == [][FlushCompletionStep]_vars

\* cancel(operationId) is the step being taken
CancelOf(operationId) == \E s \in {cancel(State, operationId)} : Becomes(s)

\* The running operation was the target of a cancel during its run (and
\* pending was not emptied by cancelAll in that run).
RunningWasCancelled ==
    /\ awaiting # <<>>
    /\ awaiting[1] \in cancelled \ wiped
    /\ awaiting[1] \notin Range(queue)

\* C13: cancel of the running operation is a no-op: the call does not
\* interrupt the action and changes nothing for the other operations, and
\* when the action settles the operations that waited in pending are still
\* all there, in the same order, and the first of them is invoked next.
CancelRunningStep ==
    /\ \A R \in Range(awaiting) :
          CancelOf(R) =>
              /\ awaiting' = awaiting
              /\ startLog' = startLog
              /\ Common(queue', Range(queue) \ {R})
                     = Common(queue, Range(queue) \ {R})
    /\ (SettleStep /\ RunningWasCancelled) =>
          /\ Common(queue', Range(queue)) = queue
          /\ queue # <<>> => startLog' = Append(startLog, queue[1])

CancelRunningIsNoOp == [][CancelRunningStep]_vars

\* The fields of the queue that a caller can observe or that decide what
\* the queue does next.
QueueState ==
    <<queue, isProcessing, lastProcessed, errors, debounceTimers,
      liveTimers, awaiting>>

\* An operation that has been cancelled is not invoked in this step.
CancelledStayOut ==
    \A id \in cancelled : Count(startLog', id) = Count(startLog, id)

\* The operations that waited beside a cancelled one are in pending until
\* they are invoked or cancelled themselves.
KeptStillPending == kept \subseteq Range(queue)

\* C14: cancel(id) for an operation that is in pending and has not started
\* removes exactly that operation, which is never invoked; the other
\* entries of pending keep their relative order and still execute; cancel
\* with an id that is not in pending leaves the queue state unchanged.
CancelWaitingStep ==
    /\ \A W \in Range(queue) \ Range(startLog) :
          CancelOf(W) =>
              /\ queue' = Common(queue, Range(queue) \ {W})
              /\ <<isProcessing, lastProcessed, errors, debounceTimers,
                   liveTimers, awaiting, startLog>>'
                   = <<isProcessing, lastProcessed, errors, debounceTimers,
                       liveTimers, awaiting, startLog>>
    /\ \A id \in Submitted \ Range(queue) :
          CancelOf(id) => QueueState' = QueueState
    /\ CancelledStayOut

CancelWaiting == []KeptStillPending /\ [][CancelWaitingStep]_vars

\* C15: when cancelAll is called while an action is running, the action
\* runs to completion and its callback is invoked, none of the operations
\* that waited in pending at the call is ever executed, and an operation
\* enqueued after the call, while the action is still running, is still
\* executed.
CancelAllDuringStep ==
    /\ (CancelAll /\ awaiting # <<>>) =>
          /\ awaiting' = awaiting
          /\ startLog' = startLog
          /\ Range(queue) \subseteq cancelled'
    /\ CancelledStayOut
    /\ (SettleStep /\ awaiting[1] \in wiped) =>
          /\ lastIter'.op = awaiting[1]
          /\ lastIter'.onSuccess \/ lastIter'.onError
          /\ Common(queue', Range(queue)) = queue
          /\ queue # <<>> => startLog' = Append(startLog, queue[1])

CancelAllDuringExecution == [][CancelAllDuringStep]_vars

\* The derived isIdle of the returned API
isIdle == ~isProcessing /\ Len(queue) = 0

\* Every action has settled and no debounce timer is live: nothing more
\* happens to the queue unless it is called.
Quiescent == awaiting = <<>> /\ liveTimers = {}

\* C16: idle is reached and stable: once every action has settled and no
\* timer is live the queue is idle (isProcessing false, pending empty); it
\* stays idle until the next enqueue; cancel, cancelAll, clearErrors and
\* flush never make an idle queue non-idle.
IdleReached == Quiescent => isIdle

IdleStableStep ==
    /\ (isIdle /\ Quiescent /\ Len(ops') = Len(ops)) => isIdle'
    /\ (isIdle /\ (Cancel \/ CancelAll \/ ClearErrors \/ Flush)) => isIdle'

IdleReachedAndStable == []IdleReached /\ [][IdleStableStep]_vars

\* C17: no fatal queue state: whatever the outcome of an operation (action
\* succeeds, fails, is not invocable, onSuccess raises, onError raises),
\* the loop goes on with the next pending operation and isProcessing
\* returns to false when pending is empty; isProcessing is never true while
\* no action is running.
NoFatalState == isProcessing => awaiting # <<>>

LoopContinuesStep ==
    startLog' # startLog \/ awaiting' # awaiting =>
        /\ Len(queue') > 0 => awaiting' # <<>>
        /\ Len(queue') = 0 => ~isProcessing'

NoFatalQueueState == []NoFatalState /\ [][LoopContinuesStep]_vars

\* C18: outcome reporting is exclusive: for each executed operation
\* onSuccess is called iff the action succeeded, and onError is called and
\* an error record is added iff the action itself failed.
ExclusiveOutcome ==
    lastIter.op # NoOp =>
        /\ lastIter.onSuccess <=> lastIter.outcome = "ok"
        /\ lastIter.onError <=> lastIter.outcome = "fail"
        /\ lastIter.recorded <=> lastIter.outcome = "fail"

\* enqueue(operation, false) is the step being taken, for any operation
EnqueueNowCall ==
    /\ Len(ops) < opLimit
    /\ \E type \in Kinds, priority \in Priorities,
          sync \in Behaviours \cup Malformed, onError \in Callbacks :
          \E s \in {EnqueueNow([State EXCEPT !.onError = onError],
                               type, priority, sync)} : Becomes(s)

\* enqueue(operation) with the default debounce is the step being taken
EnqueueDebouncedCall ==
    /\ Len(ops) < opLimit
    /\ \E type \in Kinds, priority \in Priorities :
          \E s \in {EnqueueDebounced(State, type, priority)} : Becomes(s)

\* An operation whose debounce timer is live is not in pending.
WaitingOutsidePending == \A t \in liveTimers : t.op \notin Range(queue)

\* The operation just submitted was invoked, failed and was removed before
\* the call returned: the queue was not processing and the invocation threw.
FailedWithinCall ==
    /\ ~isProcessing
    /\ ~isProcessing'
    /\ lastIter'.op = Len(ops) + 1
    /\ lastIter'.outcome = "fail"
    /\ lastIter'.recorded

\* C19: enqueue(op, false) inserts op into pending before it returns, so
\* the pending count right after the call is one higher than before, with
\* no timer involved; a debounced enqueue leaves the pending count
\* unchanged until its timer fires.
BypassStep ==
    /\ EnqueueNowCall =>
          /\ Len(ops) + 1 \in Range(insertLog')
          /\ \A t \in liveTimers' : t.op # Len(ops) + 1
          /\ Len(queue') = Len(queue) + 1
    /\ EnqueueDebouncedCall => queue' = queue

BypassUnlessFailedStep ==
    /\ EnqueueNowCall =>
          /\ Len(ops) + 1 \in Range(insertLog')
          /\ \A t \in liveTimers' : t.op # Len(ops) + 1
          /\ IF FailedWithinCall
             THEN queue' = queue /\ Len(ops) + 1 \in Range(startLog')
             ELSE /\ Len(queue') = Len(queue) + 1
                  /\ Len(ops) + 1 \in Range(queue')
    /\ EnqueueDebouncedCall => queue' = queue

EnqueueReturnsStep ==
    (EnqueueNowCall \/ EnqueueDebouncedCall) =>
        /\ ~raised'
        /\ Len(ops') > Len(ops)

FailurePassedToOnError ==
    (lastIter.op # NoOp /\ lastIter.outcome = "fail") => lastIter.onError

EnqueueNeverRaises ==
    [](~raised /\ FailurePassedToOnError) /\ [][EnqueueReturnsStep]_vars

\* An exception was on its way out of processQueue (onError raised) and
\* did not reach the caller.
EnqueueNeverRaisesWitness ==
    /\ ~raised
    /\ lastIter.op = 1
    /\ lastIter.outcome = "fail"
    /\ lastIter.onError
    /\ ~lastIter.recorded
    /\ isProcessing
    /\ awaiting = <<>>

\* The position in startLog of the first invocation of an executed operation
FirstStart(id) ==
    CHOOSE i \in 1..Len(startLog) :
        startLog[i] = id /\ \A j \in 1..(i - 1) : startLog[j] # id

\* C21: FIFO among equal priorities: of two executed operations of equal
\* priority, the one inserted into pending first (by a non-debounced
\* enqueue or by its timer firing) starts executing first.
FifoAmongEqual ==
    \A a \in Range(startLog), b \in Range(startLog) :
        (/\ Prio(a) = Prio(b)
         /\ IndexIn(insertLog, a) < IndexIn(insertLog, b))
            => FirstStart(a) < FirstStart(b)

\* Two operations of equal priority waited behind a running one and were
\* executed in the order of their insertion, which was not the order of
\* their submission.
FifoAmongEqualWitness ==
    /\ insertLog = <<1, 3, 2>>
    /\ startLog = <<1, 3, 2>>
    /\ Prio(2) = Prio(3)

\* C22: cancel(id) with the id of a debounced operation whose timer has not
\* fired changes neither pending nor debounceTimers; the operation is still
\* inserted into pending when its timer fires, and is then executed.
CancelDebouncingStep ==
    /\ \A t \in liveTimers :
          CancelOf(t.op) =>
              /\ QueueState' = QueueState
              /\ startLog' = startLog
    /\ \A t \in liveTimers :
          (t.op \in missed /\ t.op \notin {u.op : u \in liveTimers'}
             /\ debounceTimers[ops[t.op].type] = t.op
             /\ debounceTimers'[ops[t.op].type] = NoOp
             /\ insertLog' # insertLog)
          => t.op \in Range(insertLog')

\* An operation that cancel missed and whose timer has fired is in pending
\* until it is invoked.
MissedStillPending ==
    \A id \in missed :
        (\E t \in liveTimers : t.op = id) \/ id \in Range(queue)

CancelMissesDebouncing ==
    []MissedStillPending /\ [][CancelDebouncingStep]_vars

\* C23: one tracked timer per kind: there is at most one live debounce
\* timer per kind and it is the one recorded in debounceTimers for that
\* kind, also when a running action enqueues a debounced operation of the
\* kind whose timer has just fired.
OneTrackedTimerPerKind ==
    /\ \A t \in liveTimers : debounceTimers[ops[t.op].type] = t.op
    /\ \A k \in Kinds :
          debounceTimers[k] # NoOp =>
              \E t \in liveTimers : t.op = debounceTimers[k]
    /\ \A t \in liveTimers, u \in liveTimers :
          ops[t.op].type = ops[u.op].type => t.op = u.op

\* The derived hasErrors of the returned API
hasErrors == Len(errors) > 0

\* C24: clearErrors empties errors (hasErrors becomes false) and leaves
\* pending, isProcessing, the debounce timers and the running action
\* unchanged.
ClearErrorsStep ==
    ClearErrors =>
        /\ errors' = <<>>
        /\ ~hasErrors'
        /\ <<queue, isProcessing, lastProcessed, debounceTimers, liveTimers,
             awaiting, startLog>>'
             = <<queue, isProcessing, lastProcessed, debounceTimers,
                 liveTimers, awaiting, startLog>>

ClearErrorsFrame == [][ClearErrorsStep]_vars

\* The last iteration added an error record and the log is empty: it was
\* cleared afterwards.
ClearErrorsFrameWitness ==
    /\ lastIter.op # NoOp
    /\ lastIter.recorded
    /\ errors = <<>>

\* C25: nextStep moves currentStep one step forward in the order welcome,
\* privacy, preferences: from welcome always, from privacy only when
\* ageVerified is true; at preferences and in every other case currentStep
\* is unchanged (and so is the rest of the consent state).
NextStepGatingStep ==
    NextStep =>
        consent' = [consent EXCEPT !.currentStep =
            CASE @ = "welcome" -> "privacy"
              [] @ = "privacy" /\ consent.ageVerified -> "preferences"
              [] OTHER -> @]

NextStepGating == [][NextStepGatingStep]_vars

NextStepGatingWitness ==
    /\ lastNav = <<[call |-> "nextStep", from |-> "privacy"]>>
    /\ consent.currentStep = "privacy"
    /\ ~consent.ageVerified

\* the list of the steps of STEP_ORDER strictly before step
StepsBefore(step) ==
    CASE step = "privacy" -> <<"welcome">>
      [] step = "preferences" -> <<"welcome", "privacy">>
      [] OTHER -> <<>>

PrevStepStep ==
    PrevStep =>
        consent' = [consent EXCEPT !.currentStep =
            CASE @ = "preferences" -> "privacy"
              [] @ = "privacy" -> "welcome"
              [] OTHER -> @]

DerivedNavigation ==
    /\ canGoBack(consent) <=>
           prevStep(consent).currentStep # consent.currentStep
    /\ completedSteps(consent) = StepsBefore(consent.currentStep)

\* C26: prevStep moves currentStep one step back whatever ageVerified is
\* and does nothing at welcome; canGoBack is true exactly when prevStep
\* would change currentStep; completedSteps is the list of the steps
\* strictly before currentStep.
PrevStepNavigation == []DerivedNavigation /\ [][PrevStepStep]_vars

PrevStepNavigationWitness ==
    /\ lastNav = <<[call |-> "prevStep", from |-> "preferences"]>>
    /\ consent.currentStep = "privacy"
    /\ ~consent.ageVerified
    /\ canGoBack(consent)
    /\ completedSteps(consent) = <<"welcome">>

\* the payload the consent state c calls for
ExpectedSubmission(c) ==
    [categories |->
        [essential |-> TRUE, preferences |-> FALSE, functional |-> FALSE,
         tracking |-> c.categories.tracking, performance |-> FALSE],
     preciseLocation |-> c.preciseLocation,
     ageVerified |-> c.ageVerified,
     optionalHandle |-> c.optionalHandle,
     preferences |-> [theme |-> c.theme, darkMode |-> c.darkMode],
     resetToDefaults |-> FALSE]

\* C27: buildSubmission returns essential = true, preferences = functional
\* = performance = false, tracking as stored, resetToDefaults = false and
\* ageVerified, preciseLocation, optionalHandle, theme and darkMode as
\* stored, and it leaves the consent state as it was.
BuildSubmissionStep ==
    BuildSubmission =>
        /\ submission' = <<ExpectedSubmission(consent)>>
        /\ submission'[1].categories.essential
        /\ ~submission'[1].categories.preferences
        /\ ~submission'[1].categories.functional
        /\ ~submission'[1].categories.performance
        /\ submission'[1].categories.tracking = consent.categories.tracking
        /\ consent' = consent

SubmissionPayload == [][BuildSubmissionStep]_vars

SubmissionPayloadWitness ==
    /\ submission = <<ExpectedSubmission(consent)>>
    /\ consent.categories.preferences
    /\ ~consent.categories.essential
    /\ consent.optionalHandle # NullHandle
    /\ consent.theme # ConsentDefaults.theme

\* cleanup() invoked every function of the registry once and left the
\* registry empty
CleanupRunsAll ==
    \A c \in Range(lastCleanup) :
        /\ \A fn \in Range(c.before) : Count(c.invoked, fn) = 1
        /\ Range(c.invoked) \subseteq Range(c.before)
        /\ c.after = <<>>

\* The function returned by addCleanup ran its function once and took it
\* out of the registry
DisposedOnce ==
    \A d \in Range(lastDisposal) :
        /\ d.invoked = <<d.fn>>
        /\ d.fn \notin Range(d.after)

\* No timer whose cleanup function has run is live, so none fires
ClearedTimersDead == \A t \in timers : t.id \notin cleared

\* C28: cleanup() invokes every registered cleanup function exactly once
\* and leaves the registry empty; a function disposed through the function
\* that addCleanup returned ran once then and is not run by cleanup(); a
\* timer never fires after its cleanup function ran.
CleanupContract ==
    /\ CleanupRunsAll
    /\ DisposedOnce
    /\ ClearedTimersDead

\* C29: the function given to debounce is invoked once for a burst of
\* calls, DEBOUNCE_DELAY after the last call and with its arguments, and
\* not at all once cancel or cleanup was called; until then a timer for
\* that invocation is set.
DebounceContract ==
    /\ \A i \in Range(lastInvocation) :
          /\ i.args = i.called
          /\ i.age = DEBOUNCE_DELAY
          /\ ~i.voided
          /\ i.nth = 1
    /\ \A b \in Range(burst) :
          (~b.voided /\ b.invoked = 0) =>
              \E t \in timeouts :
                  /\ t.args = b.args
                  /\ t.remaining = DEBOUNCE_DELAY - b.age

\* C30: between event-loop tasks a non-empty pending list comes with
\* isProcessing true and with a loop activation that is suspended at its
\* await and will go on with the list: no operation is left in pending
\* with no loop to pick it up.
NoStalledWork ==
    queue # <<>> => (isProcessing /\ awaiting # <<>>)

\* A step that is one enqueue(operation, false) whose action, if invoked,
\* submits nothing: one operation is new and it is inserted at once
NonDebouncedEnqueueStep ==
    /\ Len(ops') = Len(ops) + 1
    /\ insertLog' = Append(insertLog, Len(ops'))

\* A step in which an operation is submitted with the debounce: it is new
\* and waits on a timer
DebouncedEnqueueStep ==
    /\ Len(ops') = Len(ops) + 1
    /\ \E t \in liveTimers' : t.op = Len(ops')

TimersLeftAloneStep ==
    /\ NonDebouncedEnqueueStep =>
          /\ liveTimers' = liveTimers
          /\ debounceTimers' = debounceTimers
    /\ DebouncedEnqueueStep =>
          \A t \in liveTimers :
              ops[t.op].type # ops'[Len(ops')].type =>
                  /\ t \in liveTimers'
                  /\ debounceTimers'[ops[t.op].type]
                         = debounceTimers[ops[t.op].type]

\* The two operations of such an enqueue wait on the timer or in pending
\* until they are invoked.
BesideStillPending ==
    \A id \in beside :
        (\E t \in liveTimers : t.op = id) \/ id \in Range(queue)

\* C31: a non-debounced enqueue neither clears nor creates a debounce
\* timer, also when a debounced operation of the same kind is waiting;
\* both operations are inserted into pending and executed; a debounced
\* enqueue of one kind leaves the timer of another kind as it is.
NonDebouncedLeavesTimers ==
    []BesideStillPending /\ [][TimersLeftAloneStep]_vars

\* The operations that saveDraft submitted
Saves == {id \in 1..Len(contents) : contents[id] # NoContent}

\* A save that is debouncing, queued or executing
Outstanding(id) ==
    \/ \E t \in liveTimers : t.op = id
    \/ id \in Range(queue) /\ id \notin Range(startLog)
    \/ id \in Range(awaiting)

\* C32: isDirty is true whenever the content of some saveDraft call has
\* not been saved: the call is debouncing, queued or executing, or the
\* save failed; also when an earlier save completes in the meantime.
DirtyWhileOutstanding ==
    ((\E id \in Saves : Outstanding(id)) \/ lastDraftCall.call = "failed")
        => draft.isDirty

\* The saves whose request is in flight
InFlight == {i \in 1..Len(awaiting) : awaiting[i] \in Saves}

\* Every saveDraft call produces at most one request
OneRequestPerSave == \A id \in Saves : Count(startLog, id) <= 1

\* A call followed by another one within its debounce window sends nothing
SupersededSendNothing == \A id \in Saves \cap superseded : id \notin Range(startLog)

\* At most one request is in flight
OneInFlight == Cardinality(InFlight) <= 1

\* isSaving is true exactly while a save action is executing
SavingWhileExecuting == draft.isSaving <=> InFlight # {}

\* C33: the saveDraft calls of one debounce window produce at most one
\* save request, the one of the last call; two requests are never in flight
\* together, and isSaving is true exactly while a save action executes.
CoalescedAndSerialized ==
    /\ OneRequestPerSave
    /\ SupersededSendNothing
    /\ OneInFlight
    /\ SavingWhileExecuting

\* localVersion equals serverVersion
VersionsAgree == draft.localVersion = draft.serverVersion

\* hasConflict becomes true only with a save response whose version is
\* greater than localVersion + 1
ConflictRaisedStep ==
    (~draft.hasConflict /\ draft'.hasConflict)
        => /\ lastDraftCall'.call = "saved"
           /\ lastDraftCall'.version > draft.localVersion + 1

\* hasConflict becomes false only through acceptServerVersion
ConflictClearedStep ==
    (draft.hasConflict /\ ~draft'.hasConflict)
        => lastDraftCall'.call = "acceptServerVersion"

WorkerRequestAccounting ==
    /\ pendingRequests = Cardinality(pendingPromises)
    /\ pendingRequests >= 0

\* A response with the id of a request whose postMessage failed arrives
\* while two other requests are outstanding
WorkerRequestAccountingWitness ==
    /\ lastWorkerCall.call = "response"
    /\ lastWorkerCall.id \in 1..Len(requests)
    /\ requests[lastWorkerCall.id].calls = <<"post failed">>
    /\ pendingRequests = 2

\* The ids of the promises that sendMessage returned
Requests == {id \in 1..Len(requests) : requests[id].kind = "request"}

\* resolve and reject of one promise are called at most once together
SettledAtMostOnce == \A id \in Requests : Len(requests[id].calls) <= 1

\* The counter is never behind the ids handed out: no id is given twice
IdsNeverReused == messageId = Len(requests)

\* A response with id i settles the request sent with id i when that is
\* outstanding, resolving on success and rejecting otherwise, and touches
\* no other promise
ResponseStep ==
    lastWorkerCall'.call = "response"
        => /\ \A id \in 1..Len(requests) :
                 requests'[id] # requests[id] => id = lastWorkerCall'.id
           /\ lastWorkerCall'.id \in pendingPromises
                 => requests'[lastWorkerCall'.id].calls
                        = <<lastWorkerCall'.result>>
           /\ Len(requests') = Len(requests)

\* terminate rejects what is outstanding and leaves nothing pending
TerminateStep ==
    lastWorkerCall'.call = "terminate"
        => /\ \A id \in pendingPromises :
                 requests'[id].calls = <<"Worker terminated">>
           /\ \A id \in 1..Len(requests') :
                 requests'[id].kind = "request"
                     => requests'[id].calls # <<>>
           /\ pendingPromises' = {}

\* C36: every promise that sendMessage returned is settled at most once; a
\* response with id i settles only the request sent with id i, resolving
\* on success and rejecting otherwise; ids are never reused; terminate
\* rejects every outstanding request with 'Worker terminated' and leaves
\* no request pending.
WorkerRequestSettlement ==
    /\ [](SettledAtMostOnce /\ IdsNeverReused)
    /\ [][ResponseStep /\ TerminateStep]_vars

\* terminate was called with one request answered, one rejected by its
\* response and one still outstanding
WorkerRequestSettlementWitness ==
    /\ lastWorkerCall.call = "terminate"
    /\ \E i, j, k \in Requests :
          /\ requests[i].calls = <<"resolve">>
          /\ requests[j].calls = <<"reject">>
          /\ requests[k].calls = <<"Worker terminated">>

\* A sendMessage call made while the worker is not ready
WorkerNotReadyStep ==
    (lastWorkerCall'.call = "sendMessage" /\ ~(worker /\ isReady))
        => /\ lastWorkerCall'.result = "Worker not ready"
           /\ pendingRequests' = pendingRequests
           /\ pendingPromises' = pendingPromises
           /\ messageId' = messageId
           /\ requests' = requests
           /\ posted' = posted

\* C37: sendMessage called without a worker or with isReady false, before
\* the initialisation or after terminate, fails with 'Worker not ready'
\* and leaves pendingRequests, pendingPromises and the message id counter
\* unchanged; nothing is posted.
WorkerNotReady == [][WorkerNotReadyStep]_vars

\* sendMessage failed with 'Worker not ready' after terminate had rejected
\* an outstanding request
WorkerNotReadyWitness ==
    /\ lastWorkerCall = [call |-> "sendMessage", id |-> UnknownId,
                         ready |-> FALSE, result |-> "Worker not ready"]
    /\ ~worker
    /\ messageId > 0
    /\ \E id \in Requests : requests[id].calls = <<"Worker terminated">>

\* target comes before current in the flow
EarlierStep(target, current) ==
    <<target, current>> \in {<<"welcome", "privacy">>,
                             <<"welcome", "preferences">>,
                             <<"privacy", "preferences">>}

\* target is the step right after current
FollowingStep(target, current) ==
    <<current, target>> \in {<<"welcome", "privacy">>,
                             <<"privacy", "preferences">>}

\* What goToStep does for every target, in the state as it is
GoToStepTable ==
    \A target \in StepValues :
        goToStep(consent, target) =
            IF \/ EarlierStep(target, consent.currentStep)
               \/ /\ FollowingStep(target, consent.currentStep)
                  /\ canProceed(consent)
            THEN [consent EXCEPT !.currentStep = target]
            ELSE consent

\* nextStep, prevStep and goToStep arrive at preferences only with the
\* age verified
ReachesPreferencesStep ==
    (/\ NextStep \/ PrevStep \/ GoToStep
     /\ consent.currentStep # "preferences"
     /\ consent'.currentStep = "preferences")
        => consent.ageVerified /\ consent.currentStep = "privacy"

\* C38: goToStep(target) moves to any earlier step unconditionally, moves
\* forward only to the immediately following step and only when
\* canProceed is true, and otherwise (same step, a skip, an unknown step)
\* leaves currentStep unchanged; so nextStep, prevStep and goToStep make
\* currentStep 'preferences' only in a step where ageVerified is true.
GoToStepNavigation == []GoToStepTable /\ [][ReachesPreferencesStep]_vars

\* goToStep has moved from privacy to preferences, the age being verified
GoToStepNavigationWitness ==
    /\ lastNav = <<[call |-> "goToStep", from |-> "privacy"]>>
    /\ consent.currentStep = "preferences"
    /\ consent.ageVerified

====
